---- MODULE Spec2Model ----
(***************************************************************************)
(* version-checker: the metrics cache and exporter (pkg/metrics) and the   *)
(* docker manifest digest resolver (pkg/client/docker/manifest).           *)
(*                                                                         *)
(* Metrics: callers (goroutines) invoke AddImage and RemoveImage on one    *)
(* Metrics object.  A call is split at its lock acquisitions: everything   *)
(* a call does between m.mu.Lock() and the deferred m.mu.Unlock() is one   *)
(* step.  AddImage first calls RemoveImage (which locks, works, unlocks)   *)
(* and only then locks m.mu itself.  Run and Shutdown of the metrics       *)
(* server, and the query encoding of authUrl, have specifications of their *)
(* own further down.                                                       *)
(***************************************************************************)
EXTENDS Naturals, Sequences, FiniteSets, TLC

(***************************************************************************)
(* Bounds of the model.                                                    *)
(***************************************************************************)
NumCallers == 2
MaxCalls == 3

Callers == 1..NumCallers

(***************************************************************************)
(* Inputs.  A Monitored Identity is (namespace, pod, container).  The      *)
(* first two identities differ only in where the namespace ends and the    *)
(* pod begins; the third shares no key with them.                          *)
(***************************************************************************)
Identities ==
    { [namespace |-> "ab", pod |-> "c",  container |-> "x"],
      [namespace |-> "a",  pod |-> "bc", container |-> "x"],
      [namespace |-> "a",  pod |-> "c",  container |-> "y"] }

Versions == {"1", "2", "3"}

\* The verdicts the control loop passes for a current version: an older version
\* is not the latest; the latest version is, unless its digest differs.
Verdicts(v) == IF v = "3" THEN BOOLEAN ELSE {FALSE}

\* type Entry struct
Entry(i, v, b) ==
    [Namespace |-> i.namespace, Pod |-> i.pod, Container |-> i.container,
     ImageURL |-> "img", IsLatest |-> b, CurrentVersion |-> v,
     LatestVersion |-> "3", OS |-> "linux", Arch |-> "amd64"]

Entries ==
    UNION { { Entry(i, v, b) : b \in Verdicts(v) } : i \in Identities, v \in Versions }

IdentityOf(entry) ==
    [namespace |-> entry.Namespace, pod |-> entry.Pod, container |-> entry.Container]

Unlocked == 0
NoCall == [op |-> "none"]

VARIABLES
    containerImageVersion,  \* the GaugeVec: label set -> gauge value
    containerCache,         \* map[string]cacheItem
    mu,                     \* sync.Mutex: Unlocked, or the caller holding it
    pc,                     \* where each caller is in its call
    call,                   \* each caller's current call and arguments
    callsLeft,              \* calls that may still be started
    hist,                   \* history: the latest calls that ran one after the other, alone
    solo,                   \* history: the call in progress has run alone so far
    disjoint,               \* history: no two calls on one identity ever overlapped
    lastCall,               \* history: per identity, the last call returned
    publishedBy,            \* history: per cache key, the label set its AddImage published
    track,                  \* which history this specification records
    offered,                \* the entries the callers of this specification pass
    client,                 \* the ManifestClient: its Options
    inputs,                 \* the (repo, image, tag) the callers of this specification pass
    digests,                \* the Digest calls made so far, each with its locals
    requests,               \* the HTTP requests sent so far, in order
    issued,                 \* how many tokens the token endpoint has issued
    Server,                 \* Metrics.Server: NoServer (nil), or the http.Server Run created
    servers,                \* the http.Servers created so far and how far each has got
    bound,                  \* the addresses that have a listener, ours or another process's
    returned,               \* what the Run and Shutdown calls so far have returned
    scopeArgs,              \* the (repo, image) authUrl is applied to
    scopeUrl                \* the URL authUrl returned for them, NoUrl before the call

metricsVars == <<containerImageVersion, containerCache, mu, pc, call, callsLeft,
                 hist, solo, disjoint, lastCall, publishedBy, track, offered>>

digestVars == <<client, inputs, digests, requests, issued>>

serverVars == <<Server, servers, bound, returned>>

scopeVars == <<scopeArgs, scopeUrl>>

vars == <<metricsVars, digestVars, serverVars, scopeVars>>

(***************************************************************************)
(* Pure helpers of pkg/metrics.                                            *)
(***************************************************************************)
\* Faulty variant of latestImageIndex: the parts are joined with a separator.
latestImageIndexSeparated(namespace, pod, container) ==
    namespace \o "/" \o pod \o "/" \o container

\* strings.Join([]string{namespace, pod, container}, "")
latestImageIndex(namespace, pod, container) ==
    namespace \o "" \o pod \o "" \o container

buildLabels(entry) ==
    [namespace       |-> entry.Namespace,
     pod             |-> entry.Pod,
     container       |-> entry.Container,
     image           |-> entry.ImageURL,
     current_version |-> entry.CurrentVersion,
     latest_version  |-> entry.LatestVersion,
     architecture    |-> entry.Arch,
     os              |-> entry.OS]

\* cacheItem{...} built by AddImage
cacheItem(entry) ==
    [image          |-> entry.ImageURL,
     currentVersion |-> entry.CurrentVersion,
     latestVersion  |-> entry.LatestVersion,
     os             |-> entry.OS,
     arch           |-> entry.Arch]

\* Faulty variant of isLatestF: the two values are the wrong way round.
isLatestFInverted(entry) == IF entry.IsLatest THEN 0 ELSE 1

\* isLatestF: 1.0 is modelled as 1, 0.0 as 0
isLatestF(entry) == IF entry.IsLatest THEN 1 ELSE 0

\* Faulty variant of RemovedEntry: the current version is filled in from the wrong field.
RemovedEntryWrongVersion(namespace, pod, container, item) ==
    [Namespace      |-> namespace,
     Pod            |-> pod,
     Container      |-> container,
     ImageURL       |-> item.image,
     CurrentVersion |-> item.latestVersion,
     LatestVersion  |-> item.latestVersion,
     OS             |-> item.os,
     Arch           |-> item.arch]

\* The Entry RemoveImage rebuilds from its arguments and the cached item.
RemovedEntry(namespace, pod, container, item) ==
    [Namespace      |-> namespace,
     Pod            |-> pod,
     Container      |-> container,
     ImageURL       |-> item.image,
     CurrentVersion |-> item.currentVersion,
     LatestVersion  |-> item.latestVersion,
     OS             |-> item.os,
     Arch           |-> item.arch]

\* GaugeVec.With(labels).Set(v): creates the series if absent, sets its value.
GaugeSet(g, labels, v) ==
    [l \in DOMAIN g \cup {labels} |-> IF l = labels THEN v ELSE g[l]]

\* GaugeVec.Delete(labels): removes the series with exactly these labels, if any.
GaugeDelete(g, labels) ==
    [l \in DOMAIN g \ {labels} |-> g[l]]

MapStore(m, k, v) == [x \in DOMAIN m \cup {k} |-> IF x = k THEN v ELSE m[x]]
MapDelete(m, k) == [x \in DOMAIN m \ {k} |-> m[x]]

(***************************************************************************)
(* State after metrics.New.                                                *)
(***************************************************************************)
MetricsInit(tr, entries) ==
    /\ track = tr
    /\ offered = entries
    /\ containerImageVersion = <<>>
    /\ containerCache = <<>>
    /\ mu = Unlocked
    /\ pc = [t \in Callers |-> "idle"]
    /\ call = [t \in Callers |-> NoCall]
    /\ callsLeft = MaxCalls
    /\ hist = <<>>
    /\ solo = FALSE
    /\ disjoint = TRUE
    /\ lastCall = [i \in Identities |-> NoCall]
    /\ publishedBy = <<>>

(***************************************************************************)
(* History bookkeeping (not program state).                                *)
(***************************************************************************)
CallIdentity(c) ==
    IF c.op = "AddImage" THEN IdentityOf(c.entry)
    ELSE [namespace |-> c.namespace, pod |-> c.pod, container |-> c.container]

OthersBusy(t) == \E u \in Callers \ {t} : pc[u] # "idle"

LastTwo(s) == IF Len(s) > 2 THEN Tail(s) ELSE s

\* Some other caller is inside a call on the identity of c.
SameIdentityBusy(t, c) ==
    \E u \in Callers \ {t} : pc[u] # "idle" /\ CallIdentity(call[u]) = CallIdentity(c)

StartHistory(t, c) ==
    /\ IF track = "sequence"
       THEN /\ solo' = ~OthersBusy(t)
            /\ hist' = IF OthersBusy(t) THEN <<>> ELSE hist
       ELSE UNCHANGED <<hist, solo>>
    /\ IF track = "identity"
       THEN disjoint' = (disjoint /\ ~SameIdentityBusy(t, c))
       ELSE UNCHANGED disjoint
    /\ UNCHANGED <<lastCall, track, offered>>

ReturnHistory(t) ==
    /\ IF track = "sequence"
       THEN /\ hist' = IF solo THEN LastTwo(Append(hist, call[t])) ELSE <<>>
            /\ solo' = FALSE
       ELSE UNCHANGED <<hist, solo>>
    /\ IF track = "identity"
       THEN lastCall' = [lastCall EXCEPT ![CallIdentity(call[t])] = call[t]]
       ELSE UNCHANGED lastCall
    /\ UNCHANGED <<disjoint, track, offered>>

(***************************************************************************)
(* sync.Mutex.  Lock blocks until the mutex is unlocked, also when the     *)
(* caller itself holds it (the mutex is not reentrant).                    *)
(***************************************************************************)
MutexLock(t) ==
    /\ mu = Unlocked
    /\ mu' = t

\* Faulty variant of MuAfterRemoveImage: the early return leaves without unlocking.
MuKeptOnEarlyReturn(t, ok) == IF ok THEN Unlocked ELSE t

\* defer m.mu.Unlock() in RemoveImage: runs on both return paths.
MuAfterRemoveImage(t, ok) == Unlocked

\* defer m.mu.Unlock() in AddImage.
MuAfterAddImage(t) == Unlocked

\* item, ok := m.containerCache[index]: ok
CacheHit(m, index) == index \in DOMAIN m

\* item, ok := m.containerCache[index]: item (the zero cacheItem when absent)
CacheItemAt(m, index) ==
    IF index \in DOMAIN m THEN m[index]
    ELSE [image |-> "", currentVersion |-> "", latestVersion |-> "", os |-> "", arch |-> ""]

(***************************************************************************)
(* Faulty variant of RemoveImageResult: the series are found by their      *)
(* identity labels instead of through the cache.                           *)
(***************************************************************************)
RemoveImageByIdentity(g, m, namespace, pod, container) ==
    [gauge |-> [l \in { x \in DOMAIN g : ~(/\ x.namespace = namespace
                                           /\ x.pod = pod
                                           /\ x.container = container) } |-> g[l]],
     cache |-> MapDelete(m, latestImageIndex(namespace, pod, container))]

(***************************************************************************)
(* RemoveImage, lines 137-155: what the locked part does to the gauge and  *)
(* the cache.                                                              *)
(***************************************************************************)
RemoveImageResult(g, m, namespace, pod, container) ==
    LET index == latestImageIndex(namespace, pod, container)
        item  == CacheItemAt(m, index)
    IN  IF ~CacheHit(m, index)
        THEN [gauge |-> g, cache |-> m]
        ELSE [gauge |-> GaugeDelete(g, buildLabels(RemovedEntry(namespace, pod, container, item))),
              cache |-> MapDelete(m, index)]

(***************************************************************************)
(* AddImage, lines 114-130: the locked part.                               *)
(***************************************************************************)
AddImageResult(g, m, entry) ==
    [gauge |-> GaugeSet(g, buildLabels(entry), isLatestF(entry)),
     cache |-> MapStore(m, latestImageIndex(entry.Namespace, entry.Pod, entry.Container),
                        cacheItem(entry))]

(***************************************************************************)
(* Actions.                                                                *)
(***************************************************************************)
\* A caller invokes AddImage(entry): line 109 calls RemoveImage first.
CallAddImage(t, entry) ==
    /\ entry \in offered
    /\ pc[t] = "idle"
    /\ callsLeft > 0
    /\ callsLeft' = callsLeft - 1
    /\ call' = [call EXCEPT ![t] = [op |-> "AddImage", entry |-> entry]]
    /\ pc' = [pc EXCEPT ![t] = "RemoveImage_Lock"]
    /\ StartHistory(t, [op |-> "AddImage", entry |-> entry])
    /\ UNCHANGED <<containerImageVersion, containerCache, mu, publishedBy, digestVars, serverVars, scopeVars>>

\* A caller invokes RemoveImage(namespace, pod, container).
CallRemoveImage(t, id) ==
    /\ id \in { IdentityOf(e) : e \in offered }
    /\ pc[t] = "idle"
    /\ callsLeft > 0
    /\ callsLeft' = callsLeft - 1
    /\ call' = [call EXCEPT ![t] = [op |-> "RemoveImage", namespace |-> id.namespace,
                                    pod |-> id.pod, container |-> id.container]]
    /\ pc' = [pc EXCEPT ![t] = "RemoveImage_Lock"]
    /\ StartHistory(t, call'[t])
    /\ UNCHANGED <<containerImageVersion, containerCache, mu, publishedBy, digestVars, serverVars, scopeVars>>

\* RemoveImage line 134: m.mu.Lock()
RemoveImageLock(t) ==
    /\ pc[t] = "RemoveImage_Lock"
    /\ MutexLock(t)
    /\ pc' = [pc EXCEPT ![t] = "RemoveImage_Body"]
    /\ UNCHANGED <<containerImageVersion, containerCache, call, callsLeft,
                   hist, solo, disjoint, lastCall, publishedBy, track, offered, digestVars, serverVars, scopeVars>>

\* RemoveImage lines 137-156 and the deferred unlock; returns to the caller, which
\* is AddImage (line 109) or the caller of RemoveImage.
RemoveImageBody(t) ==
    /\ pc[t] = "RemoveImage_Body"
    /\ LET id    == CallIdentity(call[t])
           index == latestImageIndex(id.namespace, id.pod, id.container)
           r     == RemoveImageResult(containerImageVersion, containerCache,
                                      id.namespace, id.pod, id.container)
       IN  /\ containerImageVersion' = r.gauge
           /\ containerCache' = r.cache
           /\ publishedBy' = MapDelete(publishedBy, index)
           /\ mu' = MuAfterRemoveImage(t, CacheHit(containerCache, index))
    /\ IF call[t].op = "AddImage"
       THEN /\ pc' = [pc EXCEPT ![t] = "AddImage_Lock"]
            /\ UNCHANGED <<call, hist, solo, disjoint, lastCall, track, offered>>
       ELSE /\ pc' = [pc EXCEPT ![t] = "idle"]
            /\ call' = [call EXCEPT ![t] = NoCall]
            /\ ReturnHistory(t)
    /\ UNCHANGED <<callsLeft, digestVars, serverVars, scopeVars>>

\* AddImage line 111: m.mu.Lock()
AddImageLock(t) ==
    /\ pc[t] = "AddImage_Lock"
    /\ MutexLock(t)
    /\ pc' = [pc EXCEPT ![t] = "AddImage_Body"]
    /\ UNCHANGED <<containerImageVersion, containerCache, call, callsLeft,
                   hist, solo, disjoint, lastCall, publishedBy, track, offered, digestVars, serverVars, scopeVars>>

\* AddImage lines 114-130 and the deferred unlock; AddImage returns.
AddImageBody(t) ==
    /\ pc[t] = "AddImage_Body"
    /\ LET entry == call[t].entry
           r     == AddImageResult(containerImageVersion, containerCache, entry)
       IN  /\ containerImageVersion' = r.gauge
           /\ containerCache' = r.cache
           /\ publishedBy' = MapStore(publishedBy,
                                latestImageIndex(entry.Namespace, entry.Pod, entry.Container),
                                buildLabels(entry))
    /\ mu' = MuAfterAddImage(t)
    /\ pc' = [pc EXCEPT ![t] = "idle"]
    /\ call' = [call EXCEPT ![t] = NoCall]
    /\ ReturnHistory(t)
    /\ UNCHANGED <<callsLeft, digestVars, serverVars, scopeVars>>

MetricsNext ==
    \E t \in Callers :
        \/ \E entry \in Entries : CallAddImage(t, entry)
        \/ \E id \in Identities : CallRemoveImage(t, id)
        \/ RemoveImageLock(t)
        \/ RemoveImageBody(t)
        \/ AddImageLock(t)
        \/ AddImageBody(t)

(***************************************************************************)
(* The digest resolver, pkg/client/docker/manifest.                        *)
(*                                                                         *)
(* A Digest call sends a token request, waits for its response, sends the  *)
(* manifest request, waits for its response and returns.  The registry and *)
(* the network answer each request in any of the ways listed below.  Any   *)
(* number of calls may be in progress on the one client.                   *)
(***************************************************************************)
MaxDigestCalls == 2

tokenURL == "https://auth.docker.io/token"

\* fmt.Sprintf(manifestURL, repo, image, tag)
ManifestUrl(repo, image, tag) ==
    "https://registry.hub.docker.com/v2/" \o repo \o "/" \o image \o "/manifests/" \o tag

\* The (repo, image, tag) triples Digest is called with: the multi-arch and the
\* single-arch image of TestDigest, and a tag that is no valid URL escape.
DigestInputs ==
    { <<"library", "eclipse-mosquitto", "2.0.14">>,
      <<"n8nio", "n8n", "0.123.1-rpi">>,
      <<"n8nio", "n8n", "%zz">> }

MultiArch == <<"library", "eclipse-mosquitto", "2.0.14">>
SingleArch == <<"n8nio", "n8n", "0.123.1-rpi">>

\* The images of TestDigest.
GoldenInputs == {MultiArch, SingleArch}

\* An image of TestDigest, and a tag that makes the manifest URL unparsable.
FailingInputs == {MultiArch, <<"n8nio", "n8n", "%zz">>}

\* The digests the registry publishes (the expected values of TestDigest).
PublishedDigest(repo, image, tag) ==
    IF <<repo, image, tag>> = <<"library", "eclipse-mosquitto", "2.0.14">>
    THEN "sha256:43b90568c315eeae5cbdcd75ef41aa109aef2170bc714443fe3586d565783d18"
    ELSE IF <<repo, image, tag>> = <<"n8nio", "n8n", "0.123.1-rpi">>
    THEN "sha256:9fa8ff78d46b8d55548d3d3e2bac7fb83c1b7605cafa2899ea2eb3b1550c230e"
    ELSE "sha256:0000000000000000000000000000000000000000000000000000000000000000"

\* Options{}
NoOptions == [Username |-> "", Password |-> ""]

\* error values: nil, or an error with its message
NoError == [isNil |-> TRUE]
Err(m) == [isNil |-> FALSE, msg |-> m]

\* The tokens the token endpoint issues, in order: each one issued once.
TokenValues == <<"tokA", "tokB", "tokC", "tokD">>

(***************************************************************************)
(* HTTP messages.  A body is text or a JSON object given as its            *)
(* <<field, value>> pairs; a header maps a canonical name to its values.   *)
(***************************************************************************)
TextBody(t) == [kind |-> "text", text |-> t]
ObjectBody(pairs) == [kind |-> "object", pairs |-> pairs]

RECURSIVE RenderPairs(_)
RenderPairs(pairs) ==
    IF pairs = <<>> THEN ""
    ELSE "\"" \o pairs[1][1] \o "\":\"" \o pairs[1][2] \o "\""
         \o (IF Len(pairs) > 1 THEN "," ELSE "") \o RenderPairs(Tail(pairs))

\* string(body): the bytes of the body
BodyString(body) ==
    IF body.kind = "text" THEN body.text ELSE "{" \o RenderPairs(body.pairs) \o "}"

\* json.Unmarshal(body, response) fails on a body that is no JSON value
UnmarshalError(body) ==
    IF body.kind = "text"
    THEN Err("invalid character '" \o body.text \o "' looking for beginning of value")
    ELSE NoError

\* response.Token after json.Unmarshal: the "token" field, "" when there is none
RECURSIVE TokenField(_)
TokenField(pairs) ==
    IF pairs = <<>> THEN ""
    ELSE IF pairs[Len(pairs)][1] = "token" THEN pairs[Len(pairs)][2]
    ELSE TokenField(SubSeq(pairs, 1, Len(pairs) - 1))

TransportError(m) == [kind |-> "error", msg |-> m]
HttpResponse(status, statusText, header, body) ==
    [kind |-> "http", status |-> status, statusText |-> statusText,
     header |-> header, body |-> body, readError |-> ""]

\* What may come back for a token request when tok is the next token to issue.
TokenResponses(tok) ==
    { TransportError("dial tcp: i/o timeout"),
      HttpResponse(200, "200 OK", <<>>, ObjectBody(<< <<"token", tok>> >>)),
      HttpResponse(200, "200 OK", <<>>, ObjectBody(<< <<"expires_in", "300">> >>)),
      HttpResponse(200, "200 OK", <<>>, TextBody("<html>")),
      [HttpResponse(200, "200 OK", <<>>, TextBody("")) EXCEPT !.readError = "unexpected EOF"],
      HttpResponse(401, "401 Unauthorized", <<>>,
                   ObjectBody(<< <<"details", "incorrect username or password">> >>)) }

\* What may come back for the manifest HEAD request of (repo, image, tag).
ManifestResponses(repo, image, tag) ==
    { TransportError("dial tcp: i/o timeout"),
      HttpResponse(200, "200 OK",
                   [x \in {"Docker-Content-Digest"} |-> <<PublishedDigest(repo, image, tag)>>],
                   TextBody("")),
      HttpResponse(200, "200 OK", <<>>, TextBody("")),
      HttpResponse(401, "401 Unauthorized",
                   [x \in {"Www-Authenticate"} |-> <<"Bearer realm=\"https://auth.docker.io/token\"">>],
                   TextBody("")),
      HttpResponse(403, "403 Forbidden",
                   [x \in {"Www-Authenticate"} |-> <<"">>],
                   TextBody("")),
      HttpResponse(404, "404 Not Found", <<>>, TextBody("")) }

\* textproto.CanonicalMIMEHeaderKey for the names Digest reads
CanonicalHeaderKey(name) ==
    IF name = "www-authenticate" THEN "Www-Authenticate" ELSE name

\* http.Header.Get: the first value under the canonical name, "" when absent
HeaderGet(header, name) ==
    IF CanonicalHeaderKey(name) \in DOMAIN header
    THEN header[CanonicalHeaderKey(name)][1]
    ELSE ""

\* http.Header.Add / Set
HeaderAdd(header, name, value) ==
    [x \in DOMAIN header \cup {name} |->
        IF x = name
        THEN (IF name \in DOMAIN header THEN Append(header[name], value) ELSE <<value>>)
        ELSE header[x]]

\* base64.StdEncoding.EncodeToString, for the credentials of the model
Base64(str) ==
    IF str = "user:pass" THEN "dXNlcjpwYXNz"
    ELSE IF str = "user:" THEN "dXNlcjo="
    ELSE ""

\* strconv.Quote of the characters between the quotes: a double quote and a
\* backslash are escaped with a backslash (the string is taken apart by halves)
RECURSIVE QuoteChars(_)
QuoteChars(str) ==
    IF str = "" THEN ""
    ELSE IF Len(str) = 1
    THEN (IF str = "\"" THEN "\\\""
          ELSE IF str = "\\" THEN "\\\\"
          ELSE str)
    ELSE QuoteChars(SubSeq(str, 1, Len(str) \div 2))
             \o QuoteChars(SubSeq(str, Len(str) \div 2 + 1, Len(str)))

\* %q of fmt.Errorf: the string as a Go double-quoted string literal
Quoted(str) == "\"" \o QuoteChars(str) \o "\""

\* http.NewRequest fails when the URL does not parse: an invalid % escape
UrlParseError(repo, image, tag) ==
    IF tag = "%zz"
    THEN Err("parse \"" \o ManifestUrl(repo, image, tag) \o "\": invalid URL escape \"%zz\"")
    ELSE NoError

(***************************************************************************)
(* net/url, as far as authUrl and the token endpoint use it.  Strings are   *)
(* taken apart one character at a time.                                    *)
(***************************************************************************)
\* The characters url.QueryEscape leaves alone: letters, digits, - _ . ~
Unreserved ==
    { "a", "b", "c", "d", "e", "f", "g", "h", "i", "j", "k", "l", "m", "n", "o", "p", "q",
      "r", "s", "t", "u", "v", "w", "x", "y", "z", "0", "1", "2", "3", "4", "5", "6", "7",
      "8", "9", "-", "_", ".", "~" }

\* "%" and the two upper-case hex digits of the byte, for the other characters
PercentEncoded(ch) ==
    CASE ch = ":" -> "%3A"
      [] ch = "/" -> "%2F"
      [] ch = "&" -> "%26"
      [] ch = "=" -> "%3D"
      [] ch = "+" -> "%2B"
      [] ch = "%" -> "%25"
      [] ch = "?" -> "%3F"
      [] ch = "#" -> "%23"
      [] ch = "@" -> "%40"
      [] OTHER    -> "%00"

\* The byte a %XX escape stands for
PercentDecoded(esc) ==
    CASE esc = "%3A" -> ":"
      [] esc = "%2F" -> "/"
      [] esc = "%26" -> "&"
      [] esc = "%3D" -> "="
      [] esc = "%2B" -> "+"
      [] esc = "%25" -> "%"
      [] esc = "%3F" -> "?"
      [] esc = "%23" -> "#"
      [] esc = "%40" -> "@"
      [] OTHER       -> ""

\* Faulty variant of QueryEscape: the value is put into the query as it is.
QueryNotEscaped(str) == str

\* url.QueryEscape, applied by Values.Encode to keys and values: character by
\* character (the string is taken apart by halves)
RECURSIVE QueryEscape(_)
QueryEscape(str) ==
    IF str = "" THEN ""
    ELSE IF Len(str) = 1
    THEN (IF str \in Unreserved THEN str
          ELSE IF str = " " THEN "+"
          ELSE PercentEncoded(str))
    ELSE QueryEscape(SubSeq(str, 1, Len(str) \div 2))
             \o QueryEscape(SubSeq(str, Len(str) \div 2 + 1, Len(str)))

\* What the character at position i of an escaped string contributes to the
\* unescaped one: a "%" stands with the two characters after it for one byte.
UnescapedAt(str, i) ==
    LET ch == SubSeq(str, i, i)
    IN  IF ch = "%" THEN PercentDecoded(SubSeq(str, i, i + 2))
        ELSE IF i > 1 /\ SubSeq(str, i - 1, i - 1) = "%" THEN ""
        ELSE IF i > 2 /\ SubSeq(str, i - 2, i - 2) = "%" THEN ""
        ELSE IF ch = "+" THEN " "
        ELSE ch

RECURSIVE UnescapedRange(_, _, _)
UnescapedRange(str, lo, hi) ==
    IF lo > hi THEN ""
    ELSE IF lo = hi THEN UnescapedAt(str, lo)
    ELSE UnescapedRange(str, lo, (lo + hi) \div 2)
             \o UnescapedRange(str, (lo + hi) \div 2 + 1, hi)

\* url.QueryUnescape, applied by the token endpoint when it parses the query
QueryUnescape(str) == UnescapedRange(str, 1, Len(str))

\* Values.Encode for the two parameters authUrl sets: sorted by key, joined by "&"
QueryEncode(q) ==
    QueryEscape("scope") \o "=" \o QueryEscape(q.scope) \o "&"
        \o QueryEscape("service") \o "=" \o QueryEscape(q.service)

\* The position of the first ch in str, 0 when there is none
IndexOf(str, ch) ==
    LET at == { i \in 1..Len(str) : SubSeq(str, i, i) = ch }
    IN  IF at = {} THEN 0 ELSE CHOOSE i \in at : \A j \in at : i <= j

\* The pieces of str between the occurrences of sep
RECURSIVE Split(_, _)
Split(str, sep) ==
    LET i == IndexOf(str, sep)
    IN  IF i = 0 THEN <<str>>
        ELSE <<SubSeq(str, 1, i - 1)>> \o Split(SubSeq(str, i + 1, Len(str)), sep)

\* url.ParseQuery: the <<key, value>> pairs of a raw query, unescaped
ParseQuery(raw) ==
    LET parts == Split(raw, "&")
    IN  [ n \in 1..Len(parts) |->
            LET eq == IndexOf(parts[n], "=")
            IN  IF eq = 0 THEN <<QueryUnescape(parts[n]), "">>
                ELSE <<QueryUnescape(SubSeq(parts[n], 1, eq - 1)),
                       QueryUnescape(SubSeq(parts[n], eq + 1, Len(parts[n])))>> ]

\* URL.Query() of the request the token endpoint receives
QueryOf(url) ==
    LET i == IndexOf(url, "?")
    IN  IF i = 0 THEN <<>> ELSE ParseQuery(SubSeq(url, i + 1, Len(url)))

(***************************************************************************)
(* authUrl, lines 87-101: the token URL with its service and scope         *)
(* parameters.                                                             *)
(***************************************************************************)
authUrl(repo, image) ==
    LET scope == "repository:" \o repo \o "/" \o image \o ":pull"
        q     == [service |-> "registry.docker.io", scope |-> scope]
    IN  tokenURL \o "?" \o QueryEncode(q)

\* Faulty variant of TokenRequest: the credentials are left off the token request.
TokenRequestNoBasic(id, options, repo, image) ==
    [call   |-> id,
     kind   |-> "token",
     method |-> "GET",
     url    |-> authUrl(repo, image),
     header |-> <<>>]

\* getAuthToken, lines 109-120: the token request
TokenRequest(id, options, repo, image) ==
    [call   |-> id,
     kind   |-> "token",
     method |-> "GET",
     url    |-> authUrl(repo, image),
     header |-> IF options.Username # "" /\ options.Password # ""
                THEN HeaderAdd(<<>>, "Authorization",
                               "Basic " \o Base64(options.Username \o ":" \o options.Password))
                ELSE <<>>]

\* Digest, lines 52-63: the manifest request
ManifestRequest(id, repo, image, tag, token) ==
    [call   |-> id,
     kind   |-> "manifest",
     method |-> "HEAD",
     url    |-> ManifestUrl(repo, image, tag),
     header |-> HeaderAdd(HeaderAdd(HeaderAdd(HeaderAdd(<<>>,
                    "Authorization", "Bearer " \o token),
                    "Accept", "application/vnd.docker.distribution.manifest.v2+json"),
                    "Accept", "application/vnd.docker.distribution.manifest.list.v2+json"),
                    "Accept", "application/vnd.docker.distribution.manifest.v1+json")]

\* Faulty variant of GetAuthTokenResult: the status of the token response is not looked at.
GetAuthTokenNoStatusCheck(resp) ==
    IF resp.kind = "error" THEN [token |-> "", err |-> Err(resp.msg)]
    ELSE IF resp.readError # "" THEN [token |-> "", err |-> Err(resp.readError)]
    ELSE IF ~UnmarshalError(resp.body).isNil
         THEN [token |-> "", err |-> UnmarshalError(resp.body)]
    ELSE [token |-> TokenField(resp.body.pairs), err |-> NoError]

\* Faulty variant of GetAuthTokenResult: a response without a token is an error.
GetAuthTokenRequiresToken(resp) ==
    IF resp.kind = "error" THEN [token |-> "", err |-> Err(resp.msg)]
    ELSE IF resp.readError # "" THEN [token |-> "", err |-> Err(resp.readError)]
    ELSE IF resp.status # 200 THEN [token |-> "", err |-> Err(BodyString(resp.body))]
    ELSE IF ~UnmarshalError(resp.body).isNil
         THEN [token |-> "", err |-> UnmarshalError(resp.body)]
    ELSE IF TokenField(resp.body.pairs) = ""
         THEN [token |-> "", err |-> Err("no token in response")]
    ELSE [token |-> TokenField(resp.body.pairs), err |-> NoError]

\* getAuthToken, lines 122-141: what it returns for the outcome of c.Client.Do
GetAuthTokenResult(resp) ==
    IF resp.kind = "error" THEN [token |-> "", err |-> Err(resp.msg)]
    ELSE IF resp.readError # "" THEN [token |-> "", err |-> Err(resp.readError)]
    ELSE IF resp.status # 200 THEN [token |-> "", err |-> Err(BodyString(resp.body))]
    ELSE IF ~UnmarshalError(resp.body).isNil
         THEN [token |-> "", err |-> UnmarshalError(resp.body)]
    ELSE [token |-> TokenField(resp.body.pairs), err |-> NoError]

\* Faulty variant of WwwAuthHeader: an empty header value is reported as it is.
WwwAuthHeaderAsIs(resp) == HeaderGet(resp.header, "www-authenticate")

\* Digest, lines 75-78: wwwAuthHeader
WwwAuthHeader(resp) ==
    IF HeaderGet(resp.header, "www-authenticate") = ""
    THEN "not present"
    ELSE HeaderGet(resp.header, "www-authenticate")

\* Faulty variant of ReturnedDigest: the algorithm prefix is cut off the digest.
ReturnedDigestHexOnly(resp) ==
    LET value == HeaderGet(resp.header, "Docker-Content-Digest")
        colon == IndexOf(value, ":")
    IN  SubSeq(value, colon + 1, Len(value))

\* Digest, line 84: res.Header.Get("Docker-Content-Digest")
ReturnedDigest(resp) == HeaderGet(resp.header, "Docker-Content-Digest")

\* Digest, lines 67-84: what it returns for the outcome of c.Client.Do
DigestResult(url, resp) ==
    IF resp.kind = "error"
    THEN [digest |-> "", err |-> Err("failed to get docker manifest: " \o resp.msg)]
    ELSE IF resp.status # 200
    THEN [digest |-> "",
          err |-> Err("registry responded to head request to " \o url \o " with "
                      \o Quoted(resp.statusText) \o ", auth: " \o Quoted(WwwAuthHeader(resp)))]
    ELSE [digest |-> ReturnedDigest(resp), err |-> NoError]

\* c.Client.Do on a context that is canceled or past its deadline
ContextError == TransportError("context canceled")

\* Faulty variant of ContextDone: the requests are sent without the caller's context.
ContextIgnored(ctx) == FALSE

\* req.WithContext(ctx): the request ends with the context
ContextDone(ctx) == ctx = "canceled"

NoResponse == [kind |-> "none"]
Pending == [pending |-> TRUE]
Returned(digest, err) == [pending |-> FALSE, digest |-> digest, err |-> err]

\* Faulty variant of BearerToken: the token is kept on the client and shared by its calls.
LatestIssuedToken(id) == IF issued = 0 THEN "" ELSE TokenValues[issued]

\* Digest line 46: the token the call's own getAuthToken returned
BearerToken(id) == digests[id].token

DigestInit(options, triples) ==
    /\ client = options
    /\ inputs = triples
    /\ digests = <<>>
    /\ requests = <<>>
    /\ issued = 0

DigestIds == 1..MaxDigestCalls

\* A caller invokes Digest(ctx, repo, image, tag): getAuthToken builds the token
\* request and hands it to c.Client.Do (lines 46, 104-122).
CallDigest(repo, image, tag) ==
    /\ <<repo, image, tag>> \in inputs
    /\ Len(digests) < MaxDigestCalls
    /\ LET id == Len(digests) + 1
       IN  /\ digests' = Append(digests,
                 [repo |-> repo, image |-> image, tag |-> tag, ctx |-> "live",
                  pc |-> "token_inflight", token |-> "",
                  tokenResp |-> NoResponse, manifestResp |-> NoResponse,
                  result |-> Pending])
           /\ requests' = Append(requests, TokenRequest(id, client, repo, image))
    /\ UNCHANGED <<client, inputs, issued, metricsVars, serverVars, scopeVars>>

\* The caller cancels the context of a call in progress, or its deadline passes.
CancelContext(id) ==
    /\ id <= Len(digests)
    /\ digests[id].pc # "returned"
    /\ digests[id].ctx = "live"
    /\ digests' = [digests EXCEPT ![id].ctx = "canceled"]
    /\ UNCHANGED <<client, inputs, requests, issued, metricsVars, serverVars, scopeVars>>

\* c.Client.Do of the token request returns; getAuthToken returns (lines 122-141)
\* and Digest returns its error, if any (lines 47-49).
TokenResponse(id) ==
    /\ id <= Len(digests)
    /\ digests[id].pc = "token_inflight"
    /\ \E resp \in TokenResponses(TokenValues[issued + 1]) :
         LET got == IF ContextDone(digests[id].ctx) THEN ContextError ELSE resp
             r   == GetAuthTokenResult(got)
         IN  /\ digests' = [digests EXCEPT
                   ![id].tokenResp = got,
                   ![id].token = r.token,
                   ![id].pc = IF r.err.isNil THEN "token_done" ELSE "returned",
                   ![id].result = IF r.err.isNil THEN Pending ELSE Returned("", r.err)]
             /\ issued' = IF got = HttpResponse(200, "200 OK", <<>>,
                                      ObjectBody(<< <<"token", TokenValues[issued + 1]>> >>))
                          THEN issued + 1 ELSE issued
    /\ UNCHANGED <<client, inputs, requests, metricsVars, serverVars, scopeVars>>

\* Digest lines 52-67: builds the manifest request and hands it to c.Client.Do,
\* which sends nothing on a context already canceled.
SendManifestRequest(id) ==
    /\ id <= Len(digests)
    /\ digests[id].pc = "token_done"
    /\ LET d == digests[id]
           e == UrlParseError(d.repo, d.image, d.tag)
       IN  IF ~e.isNil
           THEN /\ digests' = [digests EXCEPT ![id].pc = "returned",
                                              ![id].result = Returned("", e)]
                /\ UNCHANGED requests
           ELSE IF ContextDone(d.ctx)
           THEN /\ digests' = [digests EXCEPT
                      ![id].pc = "returned",
                      ![id].manifestResp = ContextError,
                      ![id].result = LET r == DigestResult(ManifestUrl(d.repo, d.image, d.tag),
                                                           ContextError)
                                     IN  Returned(r.digest, r.err)]
                /\ UNCHANGED requests
           ELSE /\ digests' = [digests EXCEPT ![id].pc = "manifest_inflight"]
                /\ requests' = Append(requests,
                      ManifestRequest(id, d.repo, d.image, d.tag, BearerToken(id)))
    /\ UNCHANGED <<client, inputs, issued, metricsVars, serverVars, scopeVars>>

\* c.Client.Do of the manifest request returns; Digest returns (lines 67-84).
ManifestResponse(id) ==
    /\ id <= Len(digests)
    /\ digests[id].pc = "manifest_inflight"
    /\ \E resp \in ManifestResponses(digests[id].repo, digests[id].image, digests[id].tag) :
         LET d   == digests[id]
             got == IF ContextDone(d.ctx) THEN ContextError ELSE resp
             r   == DigestResult(ManifestUrl(d.repo, d.image, d.tag), got)
         IN  digests' = [digests EXCEPT ![id].manifestResp = got,
                                        ![id].pc = "returned",
                                        ![id].result = Returned(r.digest, r.err)]
    /\ UNCHANGED <<client, inputs, requests, issued, metricsVars, serverVars, scopeVars>>

DigestNext ==
    \/ \E in \in DigestInputs : CallDigest(in[1], in[2], in[3])
    \/ \E id \in DigestIds :
         \/ CancelContext(id)
         \/ TokenResponse(id)
         \/ SendManifestRequest(id)
         \/ ManifestResponse(id)

(***************************************************************************)
(* The metrics server: Run, lines 78-105, and Shutdown, lines 175-193.     *)
(* Run opens the listener itself and leaves serving to a goroutine, which  *)
(* calls m.Serve(ln) when it gets to run.                                  *)
(***************************************************************************)
MaxServerCalls == 3

\* The serving addresses Run is called with.
Addresses == {":8080", ":9090"}

\* m.Server == nil
NoServer == 0

\* net.Listen("tcp", servingAddress): fails on an address that has a listener
ListenError(addr, inUse) ==
    IF addr \in inUse
    THEN Err("listen tcp " \o addr \o ": bind: address already in use")
    ELSE NoError

\* Faulty variant of ServerAfterRun: the server is assigned before the listener is opened.
ServerSetBeforeListen(old, new, err) == new

\* Run lines 82-93: m.Server is assigned only after net.Listen succeeded
ServerAfterRun(old, new, err) == IF err.isNil THEN new ELSE old

\* The serving tasks that run Serve on http.Server s.
ServingOn(s) == { i \in 1..Len(servers) : servers[i].task = "serving" /\ servers[i].on = s }

ServerInit(inUse) ==
    /\ Server = NoServer
    /\ servers = <<>>
    /\ bound = inUse
    /\ returned = <<>>

\* Run(servingAddress)
Run(addr) ==
    /\ Len(returned) < MaxServerCalls
    /\ LET err == ListenError(addr, bound)
           new == Len(servers) + 1
       IN  /\ Server' = ServerAfterRun(Server, new, err)
           /\ IF err.isNil
              THEN /\ bound' = bound \cup {addr}
                   /\ servers' = Append(servers,
                         [Addr |-> addr, inShutdown |-> FALSE, task |-> "started", on |-> NoServer])
              ELSE UNCHANGED <<bound, servers>>
           /\ returned' = Append(returned, [op |-> "Run", addr |-> addr, err |-> err])
    /\ UNCHANGED <<metricsVars, digestVars, scopeVars>>

\* The goroutine of lines 95-102 gets to run: m.Serve(ln) is Serve on the server
\* m.Server holds by now.  Serve on a server already shut down closes the listener
\* and returns ErrServerClosed, and the goroutine ends.
Serve(i) ==
    /\ i <= Len(servers)
    /\ servers[i].task = "started"
    /\ IF servers[Server].inShutdown
       THEN /\ servers' = [servers EXCEPT ![i].task = "exited"]
            /\ bound' = bound \ {servers[i].Addr}
       ELSE /\ servers' = [servers EXCEPT ![i].task = "serving", ![i].on = Server]
            /\ UNCHANGED bound
    /\ UNCHANGED <<Server, returned, metricsVars, digestVars, scopeVars>>

\* Serve returns ErrServerClosed once its server is shut down; lines 98-101.
ServeReturn(i) ==
    /\ i <= Len(servers)
    /\ servers[i].task = "serving"
    /\ servers[servers[i].on].inShutdown
    /\ servers' = [servers EXCEPT ![i].task = "exited"]
    /\ UNCHANGED <<Server, bound, returned, metricsVars, digestVars, scopeVars>>

\* Shutdown(): a no-op on a nil server; otherwise http.Server.Shutdown closes the
\* listeners the server serves on and waits up to five seconds for its connections.
Shutdown ==
    /\ Len(returned) < MaxServerCalls
    /\ IF Server = NoServer
       THEN /\ returned' = Append(returned, [op |-> "Shutdown", addr |-> "", err |-> NoError])
            /\ UNCHANGED <<servers, bound>>
       ELSE /\ servers' = [servers EXCEPT ![Server].inShutdown = TRUE]
            /\ bound' = bound \ { servers[i].Addr : i \in ServingOn(Server) }
            /\ \E err \in { NoError,
                            Err("prometheus metrics server shutdown failed: "
                                \o "context deadline exceeded") } :
                 /\ (~err.isNil => ServingOn(Server) # {})
                 /\ returned' = Append(returned, [op |-> "Shutdown", addr |-> "", err |-> err])
    /\ UNCHANGED <<Server, metricsVars, digestVars, scopeVars>>

ServerIds == 1..MaxServerCalls

ServerNext ==
    \/ \E addr \in Addresses : Run(addr)
    \/ Shutdown
    \/ \E i \in ServerIds :
         \/ Serve(i)
         \/ ServeReturn(i)

(***************************************************************************)
(* authUrl applied to a repo and an image, and the URL it returns.         *)
(***************************************************************************)
NoUrl == ""

\* Repository and image names, among them names that hold the characters a
\* query string gives a meaning to.
ScopeRepos == {"library", "n8nio", "quay.io/jetstack", "a/b/c", "a&service=x", "a b", "a+b", "100%"}
ScopeImages == {"n8n", "eclipse-mosquitto", "cert-manager/controller", "x:pull", "y=z", "q?r#s", "i@sha"}

ScopeInit(args) ==
    /\ scopeArgs = args
    /\ scopeUrl = NoUrl

\* getAuthToken line 104: url, err := authUrl(repo, image)
CallAuthUrl ==
    /\ scopeUrl = NoUrl
    /\ scopeUrl' = authUrl(scopeArgs[1], scopeArgs[2])
    /\ UNCHANGED <<scopeArgs, metricsVars, digestVars, serverVars>>

\* A new client without credentials and a server not started, for the
\* specifications that are about something else.
NoDigest == DigestInit(NoOptions, {})
NoRun == ServerInit({})
NoScope == ScopeInit(<<"library", "n8n">>)

\* Digest calls on a client without credentials.
InitDigest == MetricsInit("none", {}) /\ DigestInit(NoOptions, FailingInputs) /\ NoRun /\ NoScope

SpecDigest == InitDigest /\ [][DigestNext]_vars

\* c.Client.Do returns within the client's Timeout (line 37), and a goroutine that
\* can run does run: every step of a Digest call is taken in the end.
DigestFairness ==
    \A id \in DigestIds :
        /\ WF_vars(TokenResponse(id))
        /\ WF_vars(SendManifestRequest(id))
        /\ WF_vars(ManifestResponse(id))

\* TestDigest: Digest calls for its two images on a client made with Options{},
\* each with context.TODO(), which is never canceled.
InitGolden == MetricsInit("none", {}) /\ DigestInit(NoOptions, GoldenInputs) /\ NoRun /\ NoScope

GoldenNext ==
    \/ \E in \in GoldenInputs : CallDigest(in[1], in[2], in[3])
    \/ \E id \in DigestIds :
         \/ TokenResponse(id)
         \/ SendManifestRequest(id)
         \/ ManifestResponse(id)

SpecGolden == InitGolden /\ [][GoldenNext]_vars

\* Digest calls for one image, scheduled fairly.
InitDigestFair == MetricsInit("none", {}) /\ DigestInit(NoOptions, {MultiArch}) /\ NoRun /\ NoScope

SpecDigestFair == InitDigestFair /\ [][DigestNext]_vars /\ DigestFairness

\* The Options a client is made with: none, a username and a password, or a
\* username alone.
CredentialOptions ==
    { NoOptions,
      [Username |-> "user", Password |-> "pass"],
      [Username |-> "user", Password |-> ""] }

\* Digest calls on a client made with any of these Options.
InitCredentials ==
    /\ MetricsInit("none", {})
    /\ \E options \in CredentialOptions : DigestInit(options, {MultiArch})
    /\ NoRun
    /\ NoScope

SpecCredentials == InitCredentials /\ [][DigestNext]_vars

Init == MetricsInit("sequence", Entries) /\ NoDigest /\ NoRun /\ NoScope

Next == MetricsNext

\* Any interleaving of the callers, recording which calls ran alone, in sequence.
Spec == Init /\ [][Next]_vars

\* The same callers, recording per identity the last call returned.
InitDisjoint == MetricsInit("identity", Entries) /\ NoDigest /\ NoRun /\ NoScope

SpecDisjoint == InitDisjoint /\ [][Next]_vars

\* Run and Shutdown calls, with or without another process on one of the addresses.
InitServer ==
    /\ MetricsInit("none", {})
    /\ NoDigest
    /\ \E inUse \in SUBSET {":8080"} : ServerInit(inUse)
    /\ NoScope

SpecServer == InitServer /\ [][ServerNext]_vars

\* authUrl applied to each repo and image.
InitScope ==
    /\ MetricsInit("none", {})
    /\ NoDigest
    /\ NoRun
    /\ \E repo \in ScopeRepos, image \in ScopeImages : ScopeInit(<<repo, image>>)

SpecScope == InitScope /\ [][CallAuthUrl]_vars

(***************************************************************************)
(* Scheduling.  A goroutine that can run eventually runs, and a goroutine  *)
(* blocked in Lock eventually gets a mutex that keeps being unlocked       *)
(* (sync.Mutex hands the mutex to a starving waiter).                      *)
(***************************************************************************)
\* The callers contend for one identity, with two versions of its image.
FairEntries ==
    { Entry([namespace |-> "ab", pod |-> "c", container |-> "x"], v, FALSE) : v \in {"1", "2"} }

InitFair == MetricsInit("none", FairEntries) /\ NoDigest /\ NoRun /\ NoScope

Fairness ==
    \A t \in Callers :
        /\ WF_vars(RemoveImageBody(t))
        /\ WF_vars(AddImageBody(t))
        /\ SF_vars(RemoveImageLock(t))
        /\ SF_vars(AddImageLock(t))

SpecFair == InitFair /\ [][Next]_vars /\ Fairness

(***************************************************************************)
(* Vocabulary of the claims.                                               *)
(***************************************************************************)
AllIdle == \A t \in Callers : pc[t] = "idle"

\* The exported series carrying a Monitored Identity.
SeriesOf(g, id) ==
    { l \in DOMAIN g : /\ l.namespace = id.namespace
                       /\ l.pod = id.pod
                       /\ l.container = id.container }

KeyOf(id) == latestImageIndex(id.namespace, id.pod, id.container)

\* AddImage run from start to return with no other call in between:
\* line 109 (RemoveImage) and then lines 111-130.
AddImageSequential(g, m, entry) ==
    LET r == RemoveImageResult(g, m, entry.Namespace, entry.Pod, entry.Container)
    IN  AddImageResult(r.gauge, r.cache, entry)

\* Caller t takes the step that runs the locked part of RemoveImage.
RemoveImageBodyStep(t) == pc[t] = "RemoveImage_Body" /\ pc'[t] # "RemoveImage_Body"

(***************************************************************************)
(* C1.  At every moment each Monitored Identity has at most one exported   *)
(* series and at most one cache entry, whatever the interleaving of        *)
(* AddImage and RemoveImage calls.                                         *)
(***************************************************************************)
C1_AtMostOnePerIdentity ==
    \A id \in Identities :
        /\ Cardinality(SeriesOf(containerImageVersion, id)) <= 1
        /\ Cardinality({ k \in DOMAIN containerCache : k = KeyOf(id) }) <= 1

(***************************************************************************)
(* C2.  Between the removal step of an AddImage call and its publication   *)
(* step no other call acquires the lock: the two steps are one critical    *)
(* section.                                                                *)
(***************************************************************************)
C2_SingleCriticalSection ==
    [][ \A t \in Callers :
            pc[t] = "AddImage_Lock" =>
                \A u \in Callers \ {t} : ~(mu # u /\ mu' = u) ]_vars

\* The gauge and cache after AddImage(A) and then AddImage(B), run alone.
AfterAddAdd(g, m, A, B) ==
    LET r1 == AddImageSequential(g, m, A)
    IN  AddImageSequential(r1.gauge, r1.cache, B)

\* Exactly B's series for the identity, A's absent, B's item cached.
AddAddHolds(g, m, A, B) ==
    /\ SeriesOf(g, IdentityOf(B)) = {buildLabels(B)}
    /\ buildLabels(A) \notin DOMAIN g
    /\ KeyOf(IdentityOf(B)) \in DOMAIN m
    /\ m[KeyOf(IdentityOf(B))] = cacheItem(B)

(***************************************************************************)
(* C3.  AddImage(A) and then AddImage(B), run one after the other with no  *)
(* other call in between, for A and B of one identity with different       *)
(* labels, leave exactly one series for the identity, B's; A's is absent   *)
(* and the cache item is B's.  Stated of the two calls run from any        *)
(* quiescent state, and of any two calls that did run so.                  *)
(***************************************************************************)
C3_AddThenAddReplaces ==
    AllIdle =>
        /\ \A A \in Entries, B \in Entries :
              (IdentityOf(A) = IdentityOf(B) /\ buildLabels(A) # buildLabels(B)) =>
                  LET r == AfterAddAdd(containerImageVersion, containerCache, A, B)
                  IN  AddAddHolds(r.gauge, r.cache, A, B)
        /\ ( /\ Len(hist) = 2
             /\ hist[1].op = "AddImage"
             /\ hist[2].op = "AddImage"
             /\ IdentityOf(hist[1].entry) = IdentityOf(hist[2].entry)
             /\ buildLabels(hist[1].entry) # buildLabels(hist[2].entry) ) =>
                  AddAddHolds(containerImageVersion, containerCache,
                              hist[1].entry, hist[2].entry)

\* No series with e's labels and no cache entry under e's identity.
RoundTripHolds(g, m, e) ==
    /\ buildLabels(e) \notin DOMAIN g
    /\ KeyOf(IdentityOf(e)) \notin DOMAIN m

\* The last two calls ran alone: AddImage(e), then RemoveImage of e's identity.
IsRoundTrip(h) ==
    /\ Len(h) = 2
    /\ h[1].op = "AddImage"
    /\ h[2].op = "RemoveImage"
    /\ CallIdentity(h[2]) = IdentityOf(h[1].entry)

(***************************************************************************)
(* C4.  Round trip: AddImage(e) and then RemoveImage of e's identity, run  *)
(* one after the other from any state, leave no series with e's label set  *)
(* and no cache entry under e's identity.                                  *)
(***************************************************************************)
C4_AddThenRemoveRoundTrip ==
    AllIdle =>
        /\ \A e \in Entries :
              LET r1 == AddImageSequential(containerImageVersion, containerCache, e)
                  r2 == RemoveImageResult(r1.gauge, r1.cache, e.Namespace, e.Pod, e.Container)
              IN  RoundTripHolds(r2.gauge, r2.cache, e)
        /\ IsRoundTrip(hist) =>
              RoundTripHolds(containerImageVersion, containerCache, hist[1].entry)

\* A round trip has run, in a state that still exports some other series.
C4_Witness ==
    /\ AllIdle
    /\ IsRoundTrip(hist)
    /\ DOMAIN containerImageVersion # {}

(***************************************************************************)
(* C5.  RemoveImage is idempotent: a RemoveImage that finds no cache entry *)
(* under its key changes neither the cache nor the exported series, and    *)
(* after any RemoveImage a second one for the same identity changes        *)
(* nothing.                                                                *)
(***************************************************************************)
C5_RemoveImageIdempotent ==
    [][ \A t \in Callers :
            RemoveImageBodyStep(t) =>
                LET id == CallIdentity(call[t])
                    again == RemoveImageResult(containerImageVersion', containerCache',
                                               id.namespace, id.pod, id.container)
                IN  /\ ~CacheHit(containerCache, KeyOf(id)) =>
                           UNCHANGED <<containerImageVersion, containerCache>>
                    /\ again.gauge = containerImageVersion'
                    /\ again.cache = containerCache' ]_vars

\* Two RemoveImage calls for one identity have run one after the other, the
\* second finding no cache entry, while some series stays exported.
C5_Witness ==
    /\ AllIdle
    /\ Len(hist) = 2
    /\ hist[1].op = "RemoveImage"
    /\ hist[2] = hist[1]
    /\ DOMAIN containerImageVersion # {}

(***************************************************************************)
(* C6.  A RemoveImage that finds a cache entry under its key deletes       *)
(* exactly the series published by the AddImage that stored the entry, and *)
(* removes the entry: afterwards that series is not exported.              *)
(***************************************************************************)
C6_RemoveDeletesPublishedSeries ==
    [][ \A t \in Callers :
            (RemoveImageBodyStep(t) /\ CacheHit(containerCache, KeyOf(CallIdentity(call[t])))) =>
                LET id    == CallIdentity(call[t])
                    index == KeyOf(id)
                    deleted == buildLabels(RemovedEntry(id.namespace, id.pod, id.container,
                                                        CacheItemAt(containerCache, index)))
                IN  /\ deleted = publishedBy[index]
                    /\ index \notin DOMAIN containerCache'
                    /\ publishedBy[index] \notin DOMAIN containerImageVersion' ]_vars

\* The identity has a cache entry and exactly one exported series.
HasEntryAndOneSeries(id) ==
    /\ KeyOf(id) \in DOMAIN containerCache
    /\ Cardinality(SeriesOf(containerImageVersion, id)) = 1

(***************************************************************************)
(* C7.  When calls that overlap are always on different identities, once   *)
(* all calls have returned an identity has a cache entry and exactly one   *)
(* series if and only if the last call on it was an AddImage, and entry    *)
(* and series carry that AddImage's labels.                                *)
(***************************************************************************)
C7_DisjointIdentitiesKeepEntries ==
    (AllIdle /\ disjoint) =>
        \A id \in Identities :
            /\ HasEntryAndOneSeries(id) <=> lastCall[id].op = "AddImage"
            /\ lastCall[id].op = "AddImage" =>
                  /\ containerCache[KeyOf(id)] = cacheItem(lastCall[id].entry)
                  /\ SeriesOf(containerImageVersion, id) = {buildLabels(lastCall[id].entry)}

(***************************************************************************)
(* C8.  No deadlock: a caller holding the lock is never itself waiting for *)
(* it, and under fair scheduling every call that has started returns.      *)
(***************************************************************************)
C8_NoDeadlock ==
    /\ [](\A t \in Callers : mu = t => pc[t] \in {"RemoveImage_Body", "AddImage_Body"})
    /\ \A t \in Callers : (pc[t] # "idle") ~> (pc[t] = "idle")

\* One caller waits for the lock inside AddImage while another holds it.
C8_Witness ==
    \E t \in Callers, u \in Callers :
        /\ t # u
        /\ mu = u
        /\ pc[t] = "AddImage_Lock"

(***************************************************************************)
(* Vocabulary of the claims about Digest.                                  *)
(***************************************************************************)
\* The places in the log of the requests of one kind that a call has sent.
RequestsOf(id, kind) ==
    { i \in 1..Len(requests) : requests[i].call = id /\ requests[i].kind = kind }

\* The token stage succeeded: a 200 response, read whole, holding a JSON object.
TokenStageSucceeded(resp) ==
    /\ resp.kind = "http"
    /\ resp.readError = ""
    /\ resp.status = 200
    /\ resp.body.kind = "object"

TokenStageFailed(resp) == resp # NoResponse /\ ~TokenStageSucceeded(resp)

ReturnedError(d) ==
    /\ d.pc = "returned"
    /\ ~d.result.pending
    /\ ~d.result.err.isNil
    /\ d.result.digest = ""

(***************************************************************************)
(* C9.  In a Digest call the token request comes first and is sent once;   *)
(* the manifest request is sent only after the token stage succeeded.  A   *)
(* transport failure, a non-200 token status or malformed token JSON makes *)
(* Digest return an error, for a non-200 status the raw response body,     *)
(* with no manifest request and no second token request.                   *)
(***************************************************************************)
C9_TokenBeforeManifest ==
    \A id \in 1..Len(digests) :
        LET d    == digests[id]
            toks == RequestsOf(id, "token")
            mans == RequestsOf(id, "manifest")
        IN  /\ Cardinality(toks) = 1
            /\ Cardinality(mans) <= 1
            /\ \A m \in mans : \A t \in toks : t < m
            /\ mans # {} => TokenStageSucceeded(d.tokenResp)
            /\ TokenStageFailed(d.tokenResp) =>
                  /\ ReturnedError(d)
                  /\ mans = {}
                  /\ (d.tokenResp.kind = "http" /\ d.tokenResp.readError = ""
                        /\ d.tokenResp.status # 200) =>
                         d.result.err.msg = BodyString(d.tokenResp.body)

\* One call has returned the body of a non-200 token response as its error
\* while another has gone on to send its manifest request.
C9_Witness ==
    \E a \in 1..Len(digests), b \in 1..Len(digests) :
        /\ digests[a].tokenResp.kind = "http"
        /\ digests[a].tokenResp.status = 401
        /\ digests[a].tokenResp.body.kind = "object"
        /\ digests[a].pc = "returned"
        /\ RequestsOf(b, "manifest") # {}

\* The token in the response to the call's own token request.
OwnToken(id) ==
    IF TokenStageSucceeded(digests[id].tokenResp)
    THEN TokenField(digests[id].tokenResp.body.pairs)
    ELSE ""

(***************************************************************************)
(* C10.  Every manifest request carries the token that the token request   *)
(* of its own Digest call returned, and never a token issued to another    *)
(* call; Digest never writes the client.                                   *)
(***************************************************************************)
C10_NoTokenReuse ==
    /\ [](\A i \in 1..Len(requests) :
            requests[i].kind = "manifest" =>
                LET id == requests[i].call
                IN  /\ \E t \in RequestsOf(id, "token") : t < i
                    /\ requests[i].header["Authorization"] = <<"Bearer " \o OwnToken(id)>>
                    /\ \A other \in (1..Len(digests)) \ {id} :
                          OwnToken(other) # "" =>
                              requests[i].header["Authorization"]
                                  # <<"Bearer " \o OwnToken(other)>>)
    /\ [][client' = client]_vars

\* Two calls in progress together have each sent a manifest request, each with
\* the token issued to it.
C10_Witness ==
    \E i \in 1..Len(requests), j \in 1..Len(requests) :
        /\ i < j
        /\ requests[i].kind = "manifest"
        /\ requests[j].kind = "manifest"
        /\ requests[i].call # requests[j].call
        /\ OwnToken(requests[i].call) # ""
        /\ OwnToken(requests[j].call) # ""
        /\ digests[requests[i].call].pc = "manifest_inflight"
\* The value starts with the Basic scheme.
IsBasic(value) == Len(value) >= 6 /\ SubSeq(value, 1, 6) = "Basic "

(***************************************************************************)
(* C11.  On a client made with a username and a password every token       *)
(* request carries exactly one Authorization header, Basic with the        *)
(* base64 of "username:password"; on a client made without credentials no  *)
(* token request carries an Authorization header.  A manifest request      *)
(* carries exactly one Authorization header, "Bearer " and the token of    *)
(* its call, and never a Basic one.                                        *)
(***************************************************************************)
C11_BasicAuthOnTokenRequestOnly ==
    \A i \in 1..Len(requests) :
        LET r == requests[i]
        IN  /\ (r.kind = "token" /\ client = [Username |-> "user", Password |-> "pass"]) =>
                  /\ "Authorization" \in DOMAIN r.header
                  /\ r.header["Authorization"] = <<"Basic dXNlcjpwYXNz">>
            /\ (r.kind = "token" /\ client = NoOptions) =>
                  \A h \in DOMAIN r.header : \A n \in 1..Len(r.header[h]) : ~IsBasic(r.header[h][n])
            /\ r.kind = "manifest" =>
                  /\ r.header["Authorization"] = <<"Bearer " \o digests[r.call].token>>
                  /\ \A h \in DOMAIN r.header : \A n \in 1..Len(r.header[h]) :
                        ~IsBasic(r.header[h][n])

\* A client with credentials has sent a token request and, with the token it
\* got, a manifest request.
C11_Witness ==
    /\ client.Username = "user"
    /\ client.Password = "pass"
    /\ \E i \in 1..Len(requests), j \in 1..Len(requests) :
          /\ requests[i].kind = "token"
          /\ requests[j].kind = "manifest"
          /\ requests[j].call = requests[i].call
          /\ digests[requests[j].call].token # ""
\* The context of call id is done while the call is at the given place.
DoneWhile(id, place) ==
    /\ id <= Len(digests)
    /\ digests[id].ctx = "canceled"
    /\ digests[id].pc = place

\* Every call made so far has returned.
AllReturned == \A id \in 1..Len(digests) : digests[id].pc = "returned"

(***************************************************************************)
(* C12.  A call whose context is canceled or expires while its token       *)
(* request is in flight gets the context's error for that request, returns *)
(* a non-nil error with its next step and never sends a manifest request;  *)
(* one whose context ends while its manifest request is in flight gets the *)
(* context's error for that request and returns a non-nil error.  Every    *)
(* Digest call returns in the end: a call that has returned stays so, and  *)
(* again and again there is no call that has not returned.                 *)
(***************************************************************************)
C12_CancellationAborts ==
    /\ [][ \A id \in DigestIds :
             /\ (DoneWhile(id, "token_inflight") /\ digests'[id] # digests[id]) =>
                   /\ digests'[id].tokenResp = ContextError
                   /\ ReturnedError(digests'[id])
                   /\ requests' = requests
             /\ (DoneWhile(id, "manifest_inflight") /\ digests'[id] # digests[id]) =>
                   /\ digests'[id].manifestResp = ContextError
                   /\ ReturnedError(digests'[id])
             /\ (id <= Len(digests) /\ digests[id].pc = "returned") =>
                   /\ digests'[id] = digests[id]
                   /\ RequestsOf(id, "manifest")' = RequestsOf(id, "manifest") ]_vars
    /\ [](\A id \in 1..Len(digests) :
             digests[id].tokenResp = ContextError => RequestsOf(id, "manifest") = {})
    /\ []<>AllReturned

\* One call was canceled while its token request was in flight and another while
\* its manifest request was; both have returned.
C12_Witness ==
    \E a \in 1..Len(digests), b \in 1..Len(digests) :
        /\ digests[a].tokenResp = ContextError
        /\ digests[a].pc = "returned"
        /\ RequestsOf(b, "manifest") # {}
        /\ digests[b].manifestResp = ContextError
        /\ digests[b].pc = "returned"
\* sub occurs in str.
Contains(str, sub) ==
    \E i \in 1..Len(str) :
        /\ i + Len(sub) <= Len(str) + 1
        /\ SubSeq(str, i, i + Len(sub) - 1) = sub

\* The calls that have returned after a manifest response with a status other than 200.
ManifestRefused ==
    { id \in 1..Len(digests) :
        /\ digests[id].pc = "returned"
        /\ digests[id].manifestResp.kind = "http"
        /\ digests[id].manifestResp.status # 200 }

\* The first www-authenticate value of the manifest response, "" when there is none.
WwwAuthenticateOf(resp) ==
    IF "Www-Authenticate" \in DOMAIN resp.header THEN resp.header["Www-Authenticate"][1] ELSE ""

(***************************************************************************)
(* C13 as stated.  After a manifest response with a status other than 200  *)
(* Digest returns the empty digest and an error whose message contains the *)
(* status and the www-authenticate value as received, or "not present"     *)
(* when the header is absent or empty.                                     *)
(***************************************************************************)
C13_HeaderVerbatim ==
    \A id \in ManifestRefused :
        LET d == digests[id]
            h == WwwAuthenticateOf(d.manifestResp)
        IN  /\ ReturnedError(d)
            /\ Contains(d.result.err.msg, d.manifestResp.statusText)
            /\ Contains(d.result.err.msg, IF h = "" THEN "not present" ELSE h)

(***************************************************************************)
(* C13.  After a manifest response with a status other than 200 Digest     *)
(* returns the empty digest and an error whose message contains the status *)
(* and the www-authenticate value each as a Go double-quoted string: as    *)
(* received but for a backslash put before every double quote and          *)
(* backslash in it, between double quotes.  When the header is absent or   *)
(* empty the message contains "not present" in its place.                  *)
(***************************************************************************)
C13_HeaderQuoted ==
    \A id \in ManifestRefused :
        LET d == digests[id]
            h == WwwAuthenticateOf(d.manifestResp)
        IN  /\ ReturnedError(d)
            /\ Contains(d.result.err.msg, "\"" \o d.manifestResp.statusText \o "\"")
            /\ h = "" => Contains(d.result.err.msg, "auth: \"not present\"")
            /\ h = "Bearer realm=\"https://auth.docker.io/token\"" =>
                  Contains(d.result.err.msg,
                           "auth: \"Bearer realm=\\\"https://auth.docker.io/token\\\"\"")
            /\ h # "" => Contains(d.result.err.msg, "auth: \"" \o QuoteChars(h) \o "\"")

\* Two calls have returned after a refusal: one with a www-authenticate value
\* holding double quotes, one with an empty value or without the header.
C13_Witness ==
    \E a \in ManifestRefused, b \in ManifestRefused :
        /\ Contains(WwwAuthenticateOf(digests[a].manifestResp), "\"")
        /\ WwwAuthenticateOf(digests[b].manifestResp) = ""
\* The calls that have returned after both requests were answered with status 200.
BothSucceeded ==
    { id \in 1..Len(digests) :
        /\ digests[id].pc = "returned"
        /\ TokenStageSucceeded(digests[id].tokenResp)
        /\ digests[id].manifestResp.kind = "http"
        /\ digests[id].manifestResp.status = 200 }

(***************************************************************************)
(* C14.  When both requests are answered with status 200 Digest returns a  *)
(* nil error and the first Docker-Content-Digest value of the manifest     *)
(* response, character for character, or the empty string with a nil error *)
(* when the response has no such header.  For the two images of TestDigest *)
(* and a registry that publishes their digests these are the golden values *)
(* of the test.                                                            *)
(***************************************************************************)
C14_DigestHeaderVerbatim ==
    \A id \in BothSucceeded :
        LET d == digests[id]
            h == d.manifestResp.header
        IN  /\ d.result.err.isNil
            /\ "Docker-Content-Digest" \in DOMAIN h =>
                  d.result.digest = h["Docker-Content-Digest"][1]
            /\ "Docker-Content-Digest" \notin DOMAIN h => d.result.digest = ""
            /\ ("Docker-Content-Digest" \in DOMAIN h
                  /\ <<d.repo, d.image, d.tag>> = <<"library", "eclipse-mosquitto", "2.0.14">>) =>
                  d.result.digest
                      = "sha256:43b90568c315eeae5cbdcd75ef41aa109aef2170bc714443fe3586d565783d18"
            /\ ("Docker-Content-Digest" \in DOMAIN h
                  /\ <<d.repo, d.image, d.tag>> = <<"n8nio", "n8n", "0.123.1-rpi">>) =>
                  d.result.digest
                      = "sha256:9fa8ff78d46b8d55548d3d3e2bac7fb83c1b7605cafa2899ea2eb3b1550c230e"

\* Digest has returned the published digest of each of the two images.
C14_Witness ==
    \E a \in BothSucceeded, b \in BothSucceeded :
        /\ <<digests[a].repo, digests[a].image>> = <<"library", "eclipse-mosquitto">>
        /\ <<digests[b].repo, digests[b].image>> = <<"n8nio", "n8n">>
        /\ digests[a].result.digest # ""
        /\ digests[b].result.digest # ""
\* No Run call so far has got its listener.
NoRunSucceeded ==
    \A i \in 1..Len(returned) : returned[i].op = "Run" => ~returned[i].err.isNil

\* The step is a Run or a Shutdown call; its return value is the last of the log.
CallReturns == Len(returned') = Len(returned) + 1

(***************************************************************************)
(* C15.  Shutdown on a Metrics whose Server field is nil, which it is as   *)
(* long as no Run call has got its listener, returns nil and changes       *)
(* nothing.  A Run call whose address has a listener already returns the   *)
(* bind error itself, leaves the Server field as it was and starts no      *)
(* serving task.                                                           *)
(***************************************************************************)
C15_ShutdownNoOpWithoutServer ==
    /\ [](NoRunSucceeded => (Server = NoServer /\ servers = <<>>))
    /\ [][ CallReturns =>
             LET r == returned'[Len(returned')]
             IN  /\ (r.op = "Shutdown" /\ NoRunSucceeded) =>
                       /\ r.err.isNil
                       /\ UNCHANGED <<Server, servers, bound>>
                 /\ (r.op = "Run" /\ r.addr \in bound) => ~r.err.isNil
                 /\ (r.op = "Run" /\ ~r.err.isNil) => UNCHANGED <<Server, servers, bound>> ]_vars

\* Run has failed to bind and Shutdown, called after it, has returned nil.
C15_Witness ==
    /\ Server = NoServer
    /\ \E i \in 1..Len(returned), j \in 1..Len(returned) :
          /\ i < j
          /\ returned[i].op = "Run"
          /\ ~returned[i].err.isNil
          /\ returned[j].op = "Shutdown"
          /\ returned[j].err.isNil
\* The values the token endpoint reads for a query parameter, in order.
RECURSIVE ValuesOf(_, _)
ValuesOf(pairs, key) ==
    IF pairs = <<>> THEN <<>>
    ELSE (IF pairs[1][1] = key THEN <<pairs[1][2]>> ELSE <<>>) \o ValuesOf(Tail(pairs), key)

(***************************************************************************)
(* C16.  For every repo and image, also ones holding "/" or the characters *)
(* that separate query parameters, the URL authUrl returns has exactly two *)
(* query parameters: scope, which decodes to "repository:" repo "/" image  *)
(* ":pull", and service, which decodes to "registry.docker.io".            *)
(***************************************************************************)
C16_ScopeDecodesExactly ==
    scopeUrl # NoUrl =>
        LET q == QueryOf(scopeUrl)
        IN  /\ Len(q) = 2
            /\ ValuesOf(q, "scope")
                 = << "repository:" \o scopeArgs[1] \o "/" \o scopeArgs[2] \o ":pull" >>
            /\ ValuesOf(q, "service") = <<"registry.docker.io">>

\* authUrl has been applied to a repo holding "&" and "=" and an image holding "/".
C16_Witness ==
    /\ scopeUrl # NoUrl
    /\ scopeArgs = <<"a&service=x", "cert-manager/controller">>
\* The identity whose AddImage stored the cache entry under a key.
StoredBy(index) ==
    [namespace |-> publishedBy[index].namespace,
     pod       |-> publishedBy[index].pod,
     container |-> publishedBy[index].container]

(***************************************************************************)
(* C17.  The cache key is namespace, pod and container written one after   *)
(* the other, so ("ab", "c", "x") and ("a", "bc", "x") have the one key     *)
(* "abcx"; and a RemoveImage for an identity, called directly or by        *)
(* AddImage, removes the cache entry under its key also when another       *)
(* identity stored it, and leaves that identity's series exported.         *)
(***************************************************************************)
C17_DistinctIdentitiesShareKey ==
    /\ latestImageIndex("ab", "c", "x") = "abcx"
    /\ latestImageIndex("a", "bc", "x") = "abcx"
    /\ \A id \in Identities :
          Len(KeyOf(id)) = Len(id.namespace) + Len(id.pod) + Len(id.container)
    /\ \A id \in Identities :
          (KeyOf(id) \in DOMAIN containerCache /\ StoredBy(KeyOf(id)) # id) =>
              LET r == RemoveImageResult(containerImageVersion, containerCache,
                                         id.namespace, id.pod, id.container)
              IN  /\ KeyOf(id) \notin DOMAIN r.cache
                  /\ publishedBy[KeyOf(id)] \in DOMAIN containerImageVersion =>
                         publishedBy[KeyOf(id)] \in DOMAIN r.gauge

\* AddImage for ("a", "bc", "x") and then RemoveImage for ("ab", "c", "x") have run
\* one after the other: the entry the first stored is gone, its series is not.
C17_Witness ==
    /\ AllIdle
    /\ Len(hist) = 2
    /\ hist[1].op = "AddImage"
    /\ IdentityOf(hist[1].entry) = [namespace |-> "a", pod |-> "bc", container |-> "x"]
    /\ hist[2] = [op |-> "RemoveImage", namespace |-> "ab", pod |-> "c", container |-> "x"]
    /\ "abcx" \notin DOMAIN containerCache
    /\ buildLabels(hist[1].entry) \in DOMAIN containerImageVersion
\* The cache key and the cache item that go with an exported label set.
KeyOfLabels(l) == latestImageIndex(l.namespace, l.pod, l.container)

ItemOfLabels(l) ==
    [image          |-> l.image,
     currentVersion |-> l.current_version,
     latestVersion  |-> l.latest_version,
     os             |-> l.os,
     arch           |-> l.architecture]

(***************************************************************************)
(* C18.  Whenever no AddImage or RemoveImage call is in progress, every    *)
(* exported series has a cache entry under its key that records its        *)
(* labels, and every cache entry has its series exported.                  *)
(***************************************************************************)
C18_CacheMatchesSeries ==
    AllIdle =>
        /\ \A l \in DOMAIN containerImageVersion :
              /\ KeyOfLabels(l) \in DOMAIN containerCache
              /\ containerCache[KeyOfLabels(l)] = ItemOfLabels(l)
        /\ \A k \in DOMAIN containerCache :
              \E l \in DOMAIN containerImageVersion :
                  /\ KeyOfLabels(l) = k
                  /\ ItemOfLabels(l) = containerCache[k]
\* The gauge exports e's full label set with the value that goes with e.IsLatest.
ExportsWithValue(g, e) ==
    /\ buildLabels(e) \in DOMAIN g
    /\ g[buildLabels(e)] = IF e.IsLatest THEN 1 ELSE 0
    /\ DOMAIN buildLabels(e) = {"namespace", "pod", "container", "image", "current_version",
                                "latest_version", "architecture", "os"}

\* The same entry but for IsLatest.
SameLabelsOtherVerdict(e, f) ==
    /\ buildLabels(e) = buildLabels(f)
    /\ e.IsLatest # f.IsLatest

\* The last two calls ran alone: AddImage(e), then AddImage of the same entry but
\* for IsLatest.
IsReAdd(h) ==
    /\ Len(h) = 2
    /\ h[1].op = "AddImage"
    /\ h[2].op = "AddImage"
    /\ SameLabelsOtherVerdict(h[1].entry, h[2].entry)

(***************************************************************************)
(* C19.  When AddImage(e) returns, the series with e's eight labels is     *)
(* exported with value 1 if e.IsLatest and 0 otherwise.  AddImage of the   *)
(* same entry but for IsLatest, run next, changes the value of that series *)
(* and nothing else: the same series are exported, the others with the     *)
(* values they had.  Stated of the step that ends an AddImage call, of the *)
(* calls run from any quiescent state, and of the calls that did run so.   *)
(***************************************************************************)
C19_GaugeValueFollowsIsLatest ==
    /\ [][ \A t \in Callers :
             (pc[t] = "AddImage_Body" /\ pc'[t] = "idle") =>
                 ExportsWithValue(containerImageVersion', call[t].entry) ]_vars
    /\ [](AllIdle =>
            /\ \A e \in Entries, f \in Entries :
                  LET r1 == AddImageSequential(containerImageVersion, containerCache, e)
                      r2 == AddImageSequential(r1.gauge, r1.cache, f)
                  IN  /\ ExportsWithValue(r1.gauge, e)
                      /\ SameLabelsOtherVerdict(e, f) =>
                            /\ ExportsWithValue(r2.gauge, f)
                            /\ DOMAIN r2.gauge = DOMAIN r1.gauge
                            /\ \A l \in DOMAIN r1.gauge \ {buildLabels(e)} :
                                  r2.gauge[l] = r1.gauge[l]
            /\ IsReAdd(hist) => ExportsWithValue(containerImageVersion, hist[2].entry))

\* An entry has been added and added again with the other IsLatest, while another
\* series is exported as well.
C19_Witness ==
    /\ AllIdle
    /\ IsReAdd(hist)
    /\ Cardinality(DOMAIN containerImageVersion) >= 2
\* The token response is a 200 with a JSON object that has no token field.
TokenLess(resp) ==
    /\ TokenStageSucceeded(resp)
    /\ \A n \in 1..Len(resp.body.pairs) : resp.body.pairs[n][1] # "token"

\* The manifest stage succeeded: a response with status 200.
ManifestStageSucceeded(resp) == resp.kind = "http" /\ resp.status = 200

(***************************************************************************)
(* C20.  A Digest call returns a nil error, or a non-nil error and the     *)
(* empty digest.  It returns a nil error only when both requests were      *)
(* answered with status 200: a failure of the token request (transport,    *)
(* status other than 200, a body that does not decode) or of the manifest  *)
(* request (transport, status other than 200) gives a non-nil error.  A    *)
(* 200 token response whose JSON object has no token field is no failure:  *)
(* the call goes on to the manifest request with the header                *)
(* "Authorization: Bearer " and an empty token.                            *)
(***************************************************************************)
C20_ErrorOrDigest ==
    \A id \in 1..Len(digests) :
        LET d == digests[id]
        IN  /\ d.pc = "returned" =>
                  /\ ~d.result.pending
                  /\ d.result.err.isNil \/ d.result.digest = ""
                  /\ d.result.err.isNil <=>
                        (TokenStageSucceeded(d.tokenResp) /\ ManifestStageSucceeded(d.manifestResp))
            /\ TokenStageFailed(d.tokenResp) => ReturnedError(d)
            /\ (d.manifestResp # NoResponse /\ ~ManifestStageSucceeded(d.manifestResp)) =>
                  ReturnedError(d)
            /\ TokenLess(d.tokenResp) =>
                  /\ d.token = ""
                  /\ d.pc \in {"token_done", "manifest_inflight", "returned"}
                  /\ d.pc = "manifest_inflight" => RequestsOf(id, "manifest") # {}
                  /\ \A i \in RequestsOf(id, "manifest") :
                        requests[i].header["Authorization"] = <<"Bearer ">>
                  /\ (d.pc = "returned" /\ d.manifestResp = NoResponse) =>
                        d.result.err = UrlParseError(d.repo, d.image, d.tag)

\* A call that got a token response without a token has sent its manifest
\* request with the empty bearer token and returned a nil error.
C20_Witness ==
    \E id \in 1..Len(digests) :
        /\ TokenLess(digests[id].tokenResp)
        /\ RequestsOf(id, "manifest") # {}
        /\ digests[id].pc = "returned"
        /\ digests[id].result.err.isNil
====
